---- MODULE Spec2Model ----
(***************************************************************************)
(* A model of the repair-log parser bot (src/main.py): the chat-line       *)
(* splitter, the boundary scanner of parse_file, the started-flag          *)
(* lookahead of Repair.parse, Repair.total_cost, the summarizing loop of   *)
(* parse_summary and the "Send results" loop shared by parse_summary and   *)
(* parse_json.                                                             *)
(*                                                                         *)
(* Each component has its own variables, its own initial predicate and its *)
(* own specification; while one component runs, the variables of the       *)
(* others stay at their idle values.                                       *)
(***************************************************************************)
EXTENDS Integers, Sequences, FiniteSets, TLC

VARIABLES
    \* "Send results" loop (main.py 327-332, 393-398)
    given,       \* the deque as it was built, before the loop (history)
    results,     \* the deque `results`
    message,     \* the string `message`, as the sequence of items appended to it
    sent,        \* the messages handed to interaction.followup.send, in order (history)
    pc,          \* position in the loop
    \* Repair.total_cost (main.py 135-142)
    repair,          \* the Repair total_cost is called on
    material_costs,  \* the global price table (main.py 210)
    called_with,     \* the Repair and the table before the first call (history)
    ret,             \* outcome of the latest call
    prev_ret,        \* outcome of the call before it
    calls,           \* number of calls made
    \* "Attempt summarizing" of parse_summary (main.py 307-325)
    repairs,     \* the list parse_file returned
    index,       \* position of the for loop in `repairs`
    spc,         \* position in the try block
    \* Repair.__split_chat_line (main.py 45-53)
    string,      \* the argument `string`, a sequence of characters
    split_ret,   \* outcome of the call
    \* the boundary scan of parse_file (main.py 171-182)
    log_lines,     \* the lines of the file
    i,             \* the counter `i`
    start,         \* `start`, -1 while no start was seen
    end,           \* `end`
    repair_bounds, \* the list of (start, end) pairs
    scan_pc,       \* position in the scan
    \* Repair.parse (main.py 83-132)
    lines,         \* the argument `lines`
    start_index,   \* the argument `start_index`
    end_index,     \* the argument `end_index`
    fields,        \* outcome of decoding the required fields
    started,       \* the local `started`
    look_index,    \* `index` of the lookahead loop
    inspected,     \* the indices the lookahead has read (history)
    parse_pc       \* position in parse

renderVars == <<given, results, message, sent, pc>>
costVars == <<repair, called_with, ret, prev_ret, calls>>
summaryVars == <<repairs, index, spc>>
splitVars == <<string, split_ret>>
scanVars == <<log_lines, i, start, end, repair_bounds, scan_pc>>

parseVars ==
    <<lines, start_index, end_index, fields, started, look_index, inspected,
      parse_pc>>

\* What the steps of one component leave alone: the other components.
renderOthers ==
    <<costVars, summaryVars, material_costs, splitVars,
      scanVars, parseVars>>
costOthers == <<renderVars, summaryVars, splitVars, scanVars, parseVars>>
summaryOthers ==
    <<given, message, sent, pc, costVars,
      splitVars, scanVars, parseVars>>
splitOthers ==
    <<renderVars, costVars, summaryVars, material_costs,
      scanVars, parseVars>>
scanOthers ==
    <<renderVars, costVars, summaryVars, material_costs,
      splitVars, parseVars>>
parseOthers ==
    <<renderVars, costVars, summaryVars, material_costs,
      splitVars, scanVars>>

vars ==
    <<renderVars, costVars, summaryVars, material_costs, splitVars, scanVars,
      parseVars>>

(***************************************************************************)
(* The "Send results" loop.                                                *)
(*                                                                         *)
(* A result string is modelled by its place in the deque and its length;   *)
(* the loop reads nothing else of it.  `message` is the sequence of items  *)
(* appended so far, each followed by one "\n".                             *)
(***************************************************************************)

\* The literal 2000 of the loop condition.
Limit == 2000

\* Most repairs in one batch.
MaxItems == 3

\* Messages recorded in `sent`; later ones only repeat the last recorded.
MaxSent == MaxItems + 3

\* len(f"{len(repairs)} repair{'' if len(repairs) == 1 else 's'} found")
CountLineLen(n) ==
    (IF n < 10 THEN 1 ELSE 2) + (IF n = 1 THEN 13 ELSE 14)

\* Lengths of the per-repair result strings that are tried.
ItemLens ==
    {1, 1000, Limit - 17, Limit - 16, Limit - 15, Limit - 1, Limit, Limit + 1}

RECURSIVE StrLen(_)
\* len(message): every item was appended as f"{item}\n".
StrLen(m) ==
    IF m = <<>> THEN 0 ELSE m[1].len + 1 + StrLen(Tail(m))

RECURSIVE Flatten(_)
\* The items of a sequence of messages, in order.
Flatten(ms) ==
    IF ms = <<>> THEN <<>> ELSE ms[1] \o Flatten(Tail(ms))

RenderIdle ==
    /\ given = <<>>
    /\ results = <<>>
    /\ message = <<>>
    /\ sent = <<>>
    /\ pc = "idle"

CostIdle ==
    /\ repair = "none"
    /\ called_with = "none"
    /\ ret = "none"
    /\ prev_ret = "none"
    /\ calls = 0

SummaryIdle ==
    /\ repairs = <<>>
    /\ index = 0
    /\ spc = "idle"

SplitIdle ==
    /\ string = <<>>
    /\ split_ret = [raised |-> "idle"]

ScanIdle ==
    /\ log_lines = <<>>
    /\ i = 0
    /\ start = -1
    /\ end = -1
    /\ repair_bounds = <<>>
    /\ scan_pc = "idle"

ParseIdle ==
    /\ lines = <<>>
    /\ start_index = 0
    /\ end_index = 0
    /\ fields = [raised |-> "idle"]
    /\ started = FALSE
    /\ look_index = 0
    /\ inspected = {}
    /\ parse_pc = "idle"

InitRender ==
    /\ \E n \in 0..MaxItems : \E lens \in [1..n -> ItemLens] :
         given = [k \in 1..(n + 1) |->
                    IF k = 1 THEN [id |-> 1, len |-> CountLineLen(n)]
                    ELSE [id |-> k, len |-> lens[k - 1]]]
    /\ results = given
    /\ message = <<>>
    /\ sent = <<>>
    /\ pc = "outer"
    /\ CostIdle
    /\ SummaryIdle
    /\ SplitIdle
    /\ ScanIdle
    /\ ParseIdle
    /\ material_costs = << >>

\* The condition of the inner while with <= for its last <.
InnerCond_Inclusive ==
    /\ StrLen(message) < Limit
    /\ Len(results) > 0
    /\ StrLen(message) + results[1].len <= Limit

\* The condition of the inner while.
InnerCond ==
    /\ StrLen(message) < Limit
    /\ Len(results) > 0
    /\ StrLen(message) + results[1].len < Limit

\* while len(results) > 0: message = ''
OuterEnter ==
    /\ pc = "outer"
    /\ Len(results) > 0
    /\ message' = <<>>
    /\ pc' = "inner"
    /\ UNCHANGED <<given, results, sent>>
    /\ UNCHANGED renderOthers

\* The outer while ends; log(...) follows and the handler returns.
OuterExit ==
    /\ pc = "outer"
    /\ Len(results) = 0
    /\ pc' = "done"
    /\ UNCHANGED <<given, results, message, sent>>
    /\ UNCHANGED renderOthers

\* message += f"{results.pop()}\n": the item is taken from the right end.
InnerTake_Right ==
    /\ pc = "inner"
    /\ InnerCond
    /\ message' = Append(message, results[Len(results)])
    /\ results' = SubSeq(results, 1, Len(results) - 1)
    /\ UNCHANGED <<given, sent, pc>>
    /\ UNCHANGED renderOthers

\* message += f"{results.popleft()}\n"
InnerTake ==
    /\ pc = "inner"
    /\ InnerCond
    /\ message' = Append(message, Head(results))
    /\ results' = Tail(results)
    /\ UNCHANGED <<given, sent, pc>>
    /\ UNCHANGED renderOthers

\* The inner while's condition is false.
InnerStop ==
    /\ pc = "inner"
    /\ ~InnerCond
    /\ pc' = "send"
    /\ UNCHANGED <<given, results, message, sent>>
    /\ UNCHANGED renderOthers

\* await interaction.followup.send(message, ephemeral=True)
\* The transport is outside the program; the send is taken to succeed.
Send ==
    /\ pc = "send"
    /\ sent' = IF Len(sent) < MaxSent THEN Append(sent, message) ELSE sent
    /\ pc' = "outer"
    /\ UNCHANGED <<given, results, message>>
    /\ UNCHANGED renderOthers

NextRender ==
    \/ OuterEnter
    \/ OuterExit
    \/ InnerTake
    \/ InnerStop
    \/ Send

SpecRender == InitRender /\ [][NextRender]_vars

\* The event loop runs the handler's coroutine on to its end.
FairSpecRender == SpecRender /\ WF_vars(NextRender)

\* C1: the "Send results" loop terminates for every finite deque of result
\* strings: the deque eventually becomes empty and the loop exits.
C1_RendererTerminates == <>(pc = "done" /\ results = <<>>)

\* C2: at least one item is taken from the deque before each message is sent,
\* so no message that is sent is empty.
C2_NoEmptyChunk == \A k \in 1..Len(sent) : sent[k] # <<>>

\* C3: every message sent has length at most Limit, counting each item and the
\* newline that follows it, unless it is a single item that is itself longer
\* than Limit.
C3_ChunkWithinLimit ==
    \A k \in 1..Len(sent) :
        \/ StrLen(sent[k]) <= Limit
        \/ Len(sent[k]) = 1 /\ sent[k][1].len > Limit

\* A message holding two items whose lengths leave no room to spare was sent.
C3_Witness ==
    \E k \in 1..Len(sent) : Len(sent[k]) >= 2 /\ StrLen(sent[k]) = Limit

MaxMaterials == 2

\* Most calls of total_cost on one Repair.
MaxCalls == 2

MaterialNames == {"Wood", "Stone", "Iron"}
Amounts == {0, 3, 5}
Costs == {0, 50}
UnitPrices == {2, 4}

\* The dicts of at most MaxMaterials entries.
MaterialDicts ==
    {m \in UNION {[1..n -> [name : MaterialNames, amount : Amounts]] :
                    n \in 0..MaxMaterials} :
        \A a, b \in 1..Len(m) : m[a].name = m[b].name => a = b}

PriceTables == UNION {[held -> UnitPrices] : held \in SUBSET MaterialNames}

\* The Repair dataclass (main.py 33-42).
MakeRepair(start_time, block_count, materials, time_delay, cost, begun) ==
    [start_time |-> start_time, block_count |-> block_count,
     percent_damaged |-> 10, materials |-> materials,
     time_delay |-> time_delay, cost |-> cost, started |-> begun]

RECURSIVE total_cost_first_only(_, _, _, _)
\* The loop with `return total` inside it: only the first entry is added.
total_cost_first_only(self, prices, k, total) ==
    IF k > Len(self.materials) \/ k > 1
    THEN [raised |-> "none", value |-> total, self |-> self, prices |-> prices]
    ELSE IF self.materials[k].name \notin DOMAIN prices
    THEN [raised |-> "PricingError", material |-> self.materials[k].name,
          self |-> self, prices |-> prices]
    ELSE total_cost_first_only(self, prices, k + 1,
            total + self.materials[k].amount * prices[self.materials[k].name])

RECURSIVE total_cost_last_missing(_, _, _, _)
\* The loop over the entries in reverse order.
total_cost_last_missing(self, prices, k, total) ==
    IF k < 1
    THEN [raised |-> "none", value |-> total, self |-> self, prices |-> prices]
    ELSE IF self.materials[k].name \notin DOMAIN prices
    THEN [raised |-> "PricingError", material |-> self.materials[k].name,
          self |-> self, prices |-> prices]
    ELSE total_cost_last_missing(self, prices, k - 1,
            total + self.materials[k].amount * prices[self.materials[k].name])

RECURSIVE total_cost_loop(_, _, _, _)
\* for material, amount in self.materials.items(): ... from the k-th entry on
total_cost_loop(self, prices, k, total) ==
    IF k > Len(self.materials)
    THEN [raised |-> "none", value |-> total, self |-> self, prices |-> prices]
    ELSE IF self.materials[k].name \notin DOMAIN prices
    THEN [raised |-> "PricingError", material |-> self.materials[k].name,
          self |-> self, prices |-> prices]
    ELSE total_cost_loop(self, prices, k + 1,
            total + self.materials[k].amount * prices[self.materials[k].name])

\* total_cost with `return total` inside the loop.
total_cost_sum_only(self, prices) ==
    total_cost_first_only(self, prices, 1, self.cost)

\* total_cost over reversed(self.materials.items()).
total_cost_scan_back(self, prices) ==
    total_cost_last_missing(self, prices, Len(self.materials), self.cost)

\* total = self.cost; the loop; return total
total_cost(self, prices) ==
    total_cost_loop(self, prices, 1, self.cost)

InitCost ==
    /\ \E m \in MaterialDicts : \E c \in Costs :
         repair = MakeRepair("12:00:00", 7, m, 120, c, FALSE)
    /\ material_costs \in PriceTables
    /\ called_with = [self |-> repair, prices |-> material_costs]
    /\ ret = "none"
    /\ prev_ret = "none"
    /\ calls = 0
    /\ RenderIdle
    /\ SummaryIdle
    /\ SplitIdle
    /\ ScanIdle
    /\ ParseIdle

\* repair.total_cost(material_costs)
TotalCost ==
    /\ calls < MaxCalls
    /\ LET out == total_cost(repair, material_costs) IN
         /\ ret' = IF out.raised = "none"
                   THEN [raised |-> "none", value |-> out.value]
                   ELSE [raised |-> out.raised, material |-> out.material]
         /\ repair' = out.self
         /\ material_costs' = out.prices
    /\ prev_ret' = ret
    /\ calls' = calls + 1
    /\ UNCHANGED called_with
    /\ UNCHANGED costOthers

NextCost == TotalCost

SpecCost == InitCost /\ [][NextCost]_vars

\* The entries of a dict whose names a table does not hold.
Unpriced(self, prices) ==
    {k \in 1..Len(self.materials) : self.materials[k].name \notin DOMAIN prices}

RECURSIVE SumOver(_, _, _)
\* The sum of amount * price over a set of entries of a dict.
SumOver(self, prices, entries) ==
    IF entries = {} THEN 0
    ELSE LET k == CHOOSE e \in entries : \A o \in entries : e >= o IN
         self.materials[k].amount * prices[self.materials[k].name]
            + SumOver(self, prices, entries \ {k})

\* C5: on a Repair whose materials are all in the price table, total_cost
\* returns cost plus the sum of amount times unit price, leaves the Repair and
\* the table as they were, and returns the same value when called again.
C5_TotalCostIsSum ==
    (calls > 0 /\ Unpriced(called_with.self, called_with.prices) = {}) =>
        /\ ret = [raised |-> "none",
                  value |-> called_with.self.cost
                            + SumOver(called_with.self, called_with.prices,
                                      1..Len(called_with.self.materials))]
        /\ repair = called_with.self
        /\ material_costs = called_with.prices
        /\ calls > 1 => prev_ret = ret

\* total_cost was called twice on a Repair of two priced materials.
C5_Witness ==
    /\ calls = 2
    /\ Len(repair.materials) >= 2
    /\ Unpriced(repair, material_costs) = {}
    /\ ret.raised = "none"
    /\ ret.value > repair.cost

\* C6: on a Repair with a material that the price table does not hold,
\* total_cost returns no value and raises a PricingError naming the first such
\* material in the materials' order, which is not one the table holds.
C6_PricingErrorNamesFirstMissing ==
    (calls > 0 /\ Unpriced(called_with.self, called_with.prices) # {}) =>
        LET first == CHOOSE k \in Unpriced(called_with.self, called_with.prices) :
                        \A o \in Unpriced(called_with.self, called_with.prices) : k <= o
        IN  /\ ret = [raised |-> "PricingError",
                      material |-> called_with.self.materials[first].name]
            /\ ret.material \notin DOMAIN called_with.prices

\* total_cost failed on a Repair whose first material is priced and whose
\* second is not.
C6_Witness ==
    /\ calls > 0
    /\ Len(repair.materials) >= 2
    /\ 1 \notin Unpriced(repair, material_costs)
    /\ 2 \in Unpriced(repair, material_costs)
    /\ ret.raised = "PricingError"

(***************************************************************************)
(* "Attempt summarizing" of parse_summary.                                 *)
(*                                                                         *)
(* A result string is modelled by the values formatted into it.            *)
(***************************************************************************)

\* Most repairs in one summarized batch.
MaxRepairs == 2

\* __format_delay: the parts of the string, in order.
format_delay(delay) ==
    LET seconds == delay % 60
        minutes == (delay \div 60) % 60
        hours   == ((delay \div 60) \div 60) % 24
        days    == ((delay \div 60) \div 60) \div 24
    IN  (IF days > 0 THEN <<[n |-> days, unit |-> "d"]>> ELSE <<>>)
        \o (IF hours > 0 THEN <<[n |-> hours, unit |-> "h"]>> ELSE <<>>)
        \o (IF minutes > 0 THEN <<[n |-> minutes, unit |-> "m"]>> ELSE <<>>)
        \o (IF seconds > 0 THEN <<[n |-> seconds, unit |-> "s"]>> ELSE <<>>)
        \o <<[n |-> delay, unit |-> "total"]>>

\* f"{len(repairs)} repair{'' if len(repairs) == 1 else 's'} found"
CountLine(n) ==
    [kind |-> "count", found |-> n, plural |-> (n # 1)]

\* f"> {start_time}: {block_count:,} Blocks, ${total:,.2f} & " + the delay
\* + f" - Started for ${cost:,.2f}" if started
CostLine(r, total) ==
    [kind |-> "cost", start_time |-> r.start_time, block_count |-> r.block_count,
     total |-> total, delay |-> format_delay(r.time_delay),
     started_for |-> IF r.started THEN <<r.cost>> ELSE <<>>]

\* f"> {start_time}: {block_count:,} Blocks & Error pricing: {exception}"
ErrorLine(r, material) ==
    [kind |-> "error", start_time |-> r.start_time, block_count |-> r.block_count,
     exception |-> <<material, "is not in the prices dictionary">>]

SummaryRepairs ==
    {MakeRepair(t, 7, m, d, 50, st) :
        t \in {"12:00:00"},
        m \in {<<>>,
               <<[name |-> "Wood", amount |-> 5]>>,
               <<[name |-> "Wood", amount |-> 5], [name |-> "Stone", amount |-> 3]>>},
        d \in {120, 90061},
        st \in BOOLEAN}

SummaryTables ==
    {[m \in {"Wood", "Stone"} |-> IF m = "Wood" THEN 2 ELSE 4],
     [m \in {"Wood"} |-> 2]}

InitSummary ==
    /\ repairs \in UNION {[1..n -> SummaryRepairs] : n \in 0..MaxRepairs}
    /\ material_costs \in SummaryTables
    /\ index = 0
    /\ spc = "begin"
    /\ RenderIdle
    /\ CostIdle
    /\ SplitIdle
    /\ ScanIdle
    /\ ParseIdle

\* results = collections.deque(); results.append(the count line)
SummarizeBegin ==
    /\ spc = "begin"
    /\ results' = <<CountLine(Len(repairs))>>
    /\ index' = 1
    /\ spc' = "loop"
    /\ UNCHANGED <<repairs, material_costs>>
    /\ UNCHANGED summaryOthers

\* One pass of `for repair in repairs`, with the PricingError of total_cost
\* left to reach the outer handler.
SummarizeRepair_NoCatch ==
    /\ spc = "loop"
    /\ index <= Len(repairs)
    /\ LET out == total_cost(repairs[index], material_costs) IN
         /\ repairs' = [repairs EXCEPT ![index] = out.self]
         /\ material_costs' = out.prices
         /\ IF out.raised = "none"
            THEN /\ results' = Append(results, CostLine(out.self, out.value))
                 /\ index' = index + 1
                 /\ spc' = "loop"
            ELSE /\ spc' = "aborted"
                 /\ UNCHANGED <<results, index>>
    /\ UNCHANGED summaryOthers

\* One pass of `for repair in repairs`: the inner try, its except
\* PricingError, results.append(result); any other exception reaches the
\* outer except BaseException, which sends "Unknown error summarizing" and
\* returns.
SummarizeRepair ==
    /\ spc = "loop"
    /\ index <= Len(repairs)
    /\ LET out == total_cost(repairs[index], material_costs) IN
         /\ repairs' = [repairs EXCEPT ![index] = out.self]
         /\ material_costs' = out.prices
         /\ IF out.raised = "none"
            THEN /\ results' = Append(results, CostLine(out.self, out.value))
                 /\ index' = index + 1
                 /\ spc' = "loop"
            ELSE IF out.raised = "PricingError"
            THEN /\ results' = Append(results, ErrorLine(out.self, out.material))
                 /\ index' = index + 1
                 /\ spc' = "loop"
            ELSE /\ spc' = "aborted"
                 /\ UNCHANGED <<results, index>>
    /\ UNCHANGED summaryOthers

\* The for loop is exhausted; "Send results" follows.
SummarizeEnd ==
    /\ spc = "loop"
    /\ index > Len(repairs)
    /\ spc' = "send"
    /\ UNCHANGED <<repairs, material_costs, results, index>>
    /\ UNCHANGED summaryOthers

NextSummary ==
    \/ SummarizeBegin
    \/ SummarizeRepair
    \/ SummarizeEnd

SpecSummary == InitSummary /\ [][NextSummary]_vars

\* The line the summary owes to a repair under a price table.
OwedLine(r, prices, line) ==
    /\ line.start_time = r.start_time
    /\ line.block_count = r.block_count
    /\ IF Unpriced(r, prices) = {}
       THEN /\ line.kind = "cost"
            /\ line.total = r.cost + SumOver(r, prices, 1..Len(r.materials))
       ELSE /\ line.kind = "error"
            /\ line.exception[1] \notin DOMAIN prices

\* C7: pricing failures are isolated per repair: the summary is never aborted,
\* it holds the count line and then one line per repair handled so far, in
\* repair order, the line of a repair whose pricing fails being a pricing-error
\* line and that of any other its cost line; at the end there are exactly N
\* lines after the count line.
C7_PricingFailuresIsolated ==
    /\ spc # "aborted"
    /\ spc \in {"loop", "send"} =>
        /\ Len(results) = index
        /\ results[1] = CountLine(Len(repairs))
        /\ \A k \in 1..(index - 1) :
               OwedLine(repairs[k], material_costs, results[k + 1])
    /\ spc = "send" => Len(results) = Len(repairs) + 1

\* A batch whose first repair cannot be priced and whose second can was
\* summarized to the end.
C7_Witness ==
    /\ spc = "send"
    /\ Len(repairs) >= 2
    /\ Unpriced(repairs[1], material_costs) # {}
    /\ Unpriced(repairs[2], material_costs) = {}
    /\ results[2].kind = "error"
    /\ results[3].kind = "cost"

(***************************************************************************)
(* Strings.  A string is a sequence of one-character strings; str.strip,   *)
(* str.split, str.startswith and `in` are computed on the characters.      *)
(***************************************************************************)

\* The default of the parameter `split`: '[CHAT] '
ChatMarker ==
    <<"[", "C", "H", "A", "T", "]", " ">>

\* The characters str.strip() removes that a log line can hold.
Whitespace == {" ", "\t"}

\* string[from:], 1-based
Rest(s, from) == SubSeq(s, from, Len(s))

\* s[at:].startswith(sub), 1-based
HasAt(s, sub, at) ==
    /\ at >= 1
    /\ at + Len(sub) - 1 <= Len(s)
    /\ SubSeq(s, at, at + Len(sub) - 1) = sub

\* str.startswith
startswith(s, sub) == HasAt(s, sub, 1)

\* str.find, 1-based; 0 when sub does not occur
find(s, sub) ==
    IF \E at \in 1..Len(s) : HasAt(s, sub, at)
    THEN CHOOSE at \in 1..Len(s) :
            HasAt(s, sub, at) /\ \A o \in 1..(at - 1) : ~HasAt(s, sub, o)
    ELSE 0

\* sub in s
contains(s, sub) == find(s, sub) # 0

RECURSIVE lstrip(_)
lstrip(s) ==
    IF s # <<>> /\ s[1] \in Whitespace THEN lstrip(Tail(s)) ELSE s

RECURSIVE rstrip(_)
rstrip(s) ==
    IF s # <<>> /\ s[Len(s)] \in Whitespace
    THEN rstrip(SubSeq(s, 1, Len(s) - 1)) ELSE s

\* str.strip()
strip(s) == rstrip(lstrip(s))

RECURSIVE split(_, _)
\* str.split(sep): the parts between the occurrences of sep found left to right
split(s, sep) ==
    IF find(s, sep) = 0 THEN <<s>>
    ELSE <<SubSeq(s, 1, find(s, sep) - 1)>>
            \o split(Rest(s, find(s, sep) + Len(sep)), sep)

(***************************************************************************)
(* Repair.__split_chat_line.                                               *)
(***************************************************************************)

\* Most pieces a tried line is put together from.
MaxPieces == 4

\* The pieces the tried lines are put together from.
Pieces ==
    {ChatMarker, SubSeq(ChatMarker, 1, Len(ChatMarker) - 1), <<" ">>, <<"x">>,
     <<"\t">>}

RECURSIVE Joined(_)
Joined(ps) == IF ps = <<>> THEN <<>> ELSE ps[1] \o Joined(Tail(ps))

ChatLines ==
    {Joined(ps) : ps \in UNION {[1..n -> Pieces] : n \in 0..MaxPieces}}

\* __split_chat_line without string.strip().
split_chat_line_unstripped(str, sep) ==
    LET strings == split(str, sep) IN
      IF Len(strings) < 2
      THEN [raised |-> "SplitError", message |-> <<str, "cannot be split by", sep>>]
      ELSE IF Len(strings) > 2
      THEN [raised |-> "SplitError",
            message |-> <<str, "was split by", sep, "too many times">>]
      ELSE [raised |-> "none", value |-> strings[2]]

\* __split_chat_line without the test len(strings) > 2.
split_chat_line_lenient(str, sep) ==
    LET stripped == strip(str)
        strings == split(stripped, sep)
    IN  IF Len(strings) < 2
        THEN [raised |-> "SplitError",
              message |-> <<stripped, "cannot be split by", sep>>]
        ELSE [raised |-> "none", value |-> strings[2]]

\* string = string.strip(); strings = string.split(split); the two length
\* tests; return strings[1]
split_chat_line(str, sep) ==
    LET stripped == strip(str)
        strings == split(stripped, sep)
    IN  IF Len(strings) < 2
        THEN [raised |-> "SplitError",
              message |-> <<stripped, "cannot be split by", sep>>]
        ELSE IF Len(strings) > 2
        THEN [raised |-> "SplitError",
              message |-> <<stripped, "was split by", sep, "too many times">>]
        ELSE [raised |-> "none", value |-> strings[2]]

InitSplit ==
    /\ string \in ChatLines
    /\ split_ret = [raised |-> "nocall"]
    /\ RenderIdle
    /\ CostIdle
    /\ SummaryIdle
    /\ ScanIdle
    /\ ParseIdle
    /\ material_costs = << >>

\* Repair.__split_chat_line(string)
SplitChatLine ==
    /\ split_ret.raised = "nocall"
    /\ split_ret' = split_chat_line(string, ChatMarker)
    /\ UNCHANGED string
    /\ UNCHANGED splitOthers

NextSplit == SplitChatLine

SpecSplit == InitSplit /\ [][NextSplit]_vars

\* The line without its leading and trailing whitespace: the part between its
\* first and its last character that is not whitespace.
Trimmed(s) ==
    LET solid == {k \in 1..Len(s) : s[k] \notin Whitespace} IN
      IF solid = {} THEN <<>>
      ELSE SubSeq(s, CHOOSE a \in solid : \A o \in solid : a <= o,
                     CHOOSE b \in solid : \A o \in solid : b >= o)

\* The places of a string where the marker occurs.
Occurrences(s, marker) == {at \in 1..Len(s) : HasAt(s, marker, at)}

\* C8: the chat-line decoder returns a payload only when the marker occurs
\* exactly once in the trimmed line, and then it is the text after the marker;
\* with no occurrence it raises the "cannot be split" SplitError, with two or
\* more the "split too many times" SplitError, and returns nothing.
C8_SplitChatLineExactlyOnce ==
    split_ret.raised # "nocall" =>
        LET line == Trimmed(string)
            occ == Occurrences(line, ChatMarker)
        IN  /\ Cardinality(occ) = 1 =>
                 split_ret = [raised |-> "none",
                              value |-> Rest(line, (CHOOSE at \in occ : TRUE)
                                                    + Len(ChatMarker))]
            /\ Cardinality(occ) = 0 =>
                 split_ret = [raised |-> "SplitError",
                              message |-> <<line, "cannot be split by", ChatMarker>>]
            /\ Cardinality(occ) >= 2 =>
                 split_ret = [raised |-> "SplitError",
                              message |-> <<line, "was split by", ChatMarker,
                                            "too many times">>]

\* The decoder returned the payload of a line that holds the marker once
\* between leading whitespace and a payload.
C8_Witness ==
    /\ split_ret.raised = "none"
    /\ split_ret.value # <<>>
    /\ string[1] \in Whitespace

\* The decoder refused a line that holds the marker twice.
C8_WitnessTooMany ==
    /\ split_ret.raised = "SplitError"
    /\ Cardinality(Occurrences(Trimmed(string), ChatMarker)) = 2

(***************************************************************************)
(* The boundary scan of parse_file.  Indices are the code's, from 0.       *)
(***************************************************************************)

\* 'Total damaged blocks: '
DamagedMarker ==
    <<"T", "o", "t", "a", "l", " ", "d", "a", "m", "a", "g", "e", "d", " ",
      "b", "l", "o", "c", "k", "s", ":", " ">>

\* 'Money to complete repair: '
MoneyMarker ==
    <<"M", "o", "n", "e", "y", " ", "t", "o", " ", "c", "o", "m", "p", "l",
      "e", "t", "e", " ", "r", "e", "p", "a", "i", "r", ":", " ">>

\* "[12:00:00] "
Stamp ==
    <<"[", "1", "2", ":", "0", "0", ":", "0", "0", "]", " ">>

\* Most lines in a scanned log.
MaxLines == 4

\* The lines the scanned logs are made of: a line with the first marker, one
\* with the second, one with both, one with neither.
ScanLines ==
    {Stamp \o ChatMarker \o DamagedMarker \o <<"5">>,
     Stamp \o ChatMarker \o MoneyMarker \o <<"5", "0">>,
     Stamp \o ChatMarker \o MoneyMarker \o DamagedMarker,
     Stamp \o ChatMarker \o <<"x">>}

\* lines[n], n from 0
At(ls, n) == ls[n + 1]

InitScan ==
    /\ log_lines \in UNION {[1..n -> ScanLines] : n \in 0..MaxLines}
    /\ i = 0
    /\ start = -1
    /\ end = -1
    /\ repair_bounds = <<>>
    /\ scan_pc = "scan"
    /\ RenderIdle
    /\ CostIdle
    /\ SummaryIdle
    /\ SplitIdle
    /\ ParseIdle
    /\ material_costs = << >>

\* One pass of `for line in log_lines`, with start forgotten once paired.
ScanLine_ClearStart ==
    /\ scan_pc = "scan"
    /\ i < Len(log_lines)
    /\ IF contains(At(log_lines, i), DamagedMarker)
       THEN /\ start' = i
            /\ UNCHANGED <<end, repair_bounds>>
       ELSE IF contains(At(log_lines, i), MoneyMarker)
       THEN /\ end' = i
            /\ repair_bounds' = IF start # -1
                                THEN Append(repair_bounds, <<start, i>>)
                                ELSE repair_bounds
            /\ start' = -1
       ELSE UNCHANGED <<start, end, repair_bounds>>
    /\ i' = i + 1
    /\ UNCHANGED <<log_lines, scan_pc>>
    /\ UNCHANGED scanOthers

\* One pass of `for line in log_lines`: the if, the elif, i += 1.
ScanLine ==
    /\ scan_pc = "scan"
    /\ i < Len(log_lines)
    /\ IF contains(At(log_lines, i), DamagedMarker)
       THEN /\ start' = i
            /\ UNCHANGED <<end, repair_bounds>>
       ELSE IF contains(At(log_lines, i), MoneyMarker)
       THEN /\ end' = i
            /\ repair_bounds' = IF start # -1
                                THEN Append(repair_bounds, <<start, i>>)
                                ELSE repair_bounds
            /\ UNCHANGED start
       ELSE UNCHANGED <<start, end, repair_bounds>>
    /\ i' = i + 1
    /\ UNCHANGED <<log_lines, scan_pc>>
    /\ UNCHANGED scanOthers

\* The for loop is exhausted.
ScanEnd ==
    /\ scan_pc = "scan"
    /\ i >= Len(log_lines)
    /\ scan_pc' = "scanned"
    /\ UNCHANGED <<log_lines, i, start, end, repair_bounds>>
    /\ UNCHANGED scanOthers

NextScan ==
    \/ ScanLine
    \/ ScanEnd

SpecScan == InitScan /\ [][NextScan]_vars

\* The lines that hold the first marker, and those that hold the second.
HoldDamaged(ls) ==
    {n \in 0..(Len(ls) - 1) : Occurrences(At(ls, n), DamagedMarker) # {}}

HoldMoney(ls) ==
    {n \in 0..(Len(ls) - 1) : Occurrences(At(ls, n), MoneyMarker) # {}}

RECURSIVE PairsBelow(_, _, _)
\* In line order, one pair (s, j) for each j < n in closes with a member of
\* opens below it, s the greatest such member.
PairsBelow(opens, closes, n) ==
    IF n = 0 THEN <<>>
    ELSE LET j == n - 1
             before == {o \in opens : o < j}
         IN  PairsBelow(opens, closes, j)
                \o (IF j \in closes /\ before # {}
                    THEN <<<<CHOOSE s \in before : \A o \in before : s >= o, j>>>>
                    ELSE <<>>)

\* Every pair emitted lies in the log, its start below its end.
PairsInLog ==
    \A k \in 1..Len(repair_bounds) :
        /\ 0 <= repair_bounds[k][1]
        /\ repair_bounds[k][1] < repair_bounds[k][2]
        /\ repair_bounds[k][2] < Len(log_lines)

\* C9: the scan emits, in line order, exactly one pair (s, j) for
\* each line j holding the event-close marker that has a line holding the
\* event-open marker before it, s being the latest such line; and every pair
\* has 0 <= s < j < number of lines.
C9_PairForEveryCloseLine ==
    scan_pc = "scanned" =>
        /\ repair_bounds
             = PairsBelow(HoldDamaged(log_lines), HoldMoney(log_lines),
                          Len(log_lines))
        /\ PairsInLog

\* C9, with a line that holds both markers counted as an event-open line
\* only: the scan emits, in line order, exactly one pair (s, j) for each line
\* j holding the event-close marker and not the event-open marker that has a
\* line holding the event-open marker before it, s being the latest such line;
\* and every pair has 0 <= s < j < number of lines.
C9_PairForEveryCloseOnlyLine ==
    /\ PairsInLog
    /\ scan_pc = "scanned" =>
         repair_bounds
           = PairsBelow(HoldDamaged(log_lines),
                        HoldMoney(log_lines) \ HoldDamaged(log_lines),
                        Len(log_lines))

\* A start was paired with two closes that follow it and a line holding both
\* markers was passed.
C9_Witness ==
    /\ scan_pc = "scanned"
    /\ Len(repair_bounds) >= 2
    /\ repair_bounds[1][1] = repair_bounds[2][1]
    /\ HoldDamaged(log_lines) \cap HoldMoney(log_lines) # {}

(***************************************************************************)
(* Repair.parse: the scalar decoders, the required fields, the lookahead   *)
(* for `started`.                                                          *)
(***************************************************************************)

\* The literal 100 of range(cost_index + 1, min(cost_index + 100, len(lines))).
LookaheadSpan == 100

\* Lines of the tried logs that lie beyond the last line the lookahead reads.
MaxBeyond == 1

Digits == <<"0", "1", "2", "3", "4", "5", "6", "7", "8", "9">>

IsDigits(s) == \A k \in 1..Len(s) : \E d \in 1..10 : Digits[d] = s[k]

RECURSIVE DigitsValue(_)
DigitsValue(s) ==
    IF s = <<>> THEN 0
    ELSE 10 * DigitsValue(SubSeq(s, 1, Len(s) - 1))
            + (CHOOSE d \in 0..9 : Digits[d + 1] = s[Len(s)])

\* A sign and what follows it.
Signed(s) ==
    IF s # <<>> /\ s[1] = "-" THEN [sign |-> -1, body |-> Tail(s)]
    ELSE IF s # <<>> /\ s[1] = "+" THEN [sign |-> 1, body |-> Tail(s)]
    ELSE [sign |-> 1, body |-> s]

\* int(s), for text of digits, signs, points and whitespace.
to_int(s) ==
    LET t == Signed(strip(s)) IN
      IF t.body # <<>> /\ IsDigits(t.body)
      THEN [raised |-> "none", value |-> t.sign * DigitsValue(t.body)]
      ELSE [raised |-> "ValueError"]

\* float(s), for text of digits, signs, points and whitespace.
to_float(s) ==
    LET t == Signed(strip(s))
        parts == split(t.body, <<".">>)
    IN  IF /\ Len(parts) = 2
           /\ IsDigits(parts[1])
           /\ IsDigits(parts[2])
           /\ parts[1] \o parts[2] # <<>>
        THEN [raised |-> "none",
              value |-> [sign |-> t.sign, whole |-> DigitsValue(parts[1]),
                         fraction |-> DigitsValue(parts[2]),
                         places |-> Len(parts[2])]]
        ELSE IF Len(parts) = 1 /\ parts[1] # <<>> /\ IsDigits(parts[1])
        THEN [raised |-> "none",
              value |-> [sign |-> t.sign, whole |-> DigitsValue(parts[1]),
                         fraction |-> 0, places |-> 0]]
        ELSE [raised |-> "ValueError"]

\* datetime.datetime.strptime(s, '%H:%M:%S').time()
strptime(s) ==
    LET parts == split(s, <<":">>)
        fits(part, most) ==
            /\ Len(part) \in {1, 2}
            /\ IsDigits(part)
            /\ DigitsValue(part) <= most
    IN  IF Len(parts) = 3 /\ fits(parts[1], 23) /\ fits(parts[2], 59)
           /\ fits(parts[3], 59)
        THEN [raised |-> "none",
              value |-> <<DigitsValue(parts[1]), DigitsValue(parts[2]),
                          DigitsValue(parts[3])>>]
        ELSE [raised |-> "ValueError"]

\* Repair.__split_start_line
split_start_line(str) ==
    strptime(Rest(split(str, <<"]", " ">>)[1], 2))

\* Repair.__split_material_line
split_material_line(str) ==
    LET strings == split(str, <<" ", ":", " ">>) IN
      IF Len(strings) < 2
      THEN [raised |-> "SplitError", message |-> <<str, "cannot be split">>]
      ELSE IF Len(strings) > 2
      THEN [raised |-> "SplitError",
            message |-> <<str, "was split too many times">>]
      ELSE IF to_int(strings[2]).raised # "none"
      THEN [raised |-> "ValueError"]
      ELSE [raised |-> "none",
            value |-> [name |-> strings[1], amount |-> to_int(strings[2]).value]]

\* Repair.__split_number_line
split_number_line(str) ==
    LET strings == split(str, <<":", " ">>) IN
      IF Len(strings) < 2
      THEN [raised |-> "SplitError", message |-> <<str, "cannot be split">>]
      ELSE IF Len(strings) > 2
      THEN [raised |-> "SplitError",
            message |-> <<str, "was split too many times">>]
      ELSE IF to_int(strings[2]).raised = "none"
      THEN to_int(strings[2])
      ELSE to_float(strings[2])

\* x = lines[n]; x = __split_chat_line(x); x = __split_number_line(x)
number_at(ls, n) ==
    LET chat == split_chat_line(At(ls, n), ChatMarker) IN
      IF chat.raised # "none" THEN chat ELSE split_number_line(chat.value)

\* materials[name] = amount
dict_set(dict, name, amount) ==
    IF \E k \in 1..Len(dict) : dict[k].name = name
    THEN [k \in 1..Len(dict) |->
            IF dict[k].name = name THEN [name |-> name, amount |-> amount]
            ELSE dict[k]]
    ELSE Append(dict, [name |-> name, amount |-> amount])

RECURSIVE materials_from(_, _, _, _)
\* for index in range(supply_start_index, supply_end_index), from n on
materials_from(ls, n, stop, dict) ==
    IF n >= stop THEN [raised |-> "none", value |-> dict]
    ELSE LET chat == split_chat_line(At(ls, n), ChatMarker) IN
         IF chat.raised # "none" THEN chat
         ELSE LET entry == split_material_line(chat.value) IN
              IF entry.raised # "none" THEN entry
              ELSE materials_from(ls, n + 1, stop,
                      dict_set(dict, entry.value.name, entry.value.amount))

\* Lines 85-118 of parse: the six fields decoded in the code's order, or the
\* first exception.
required_fields(ls, first, last) ==
    LET start_time == split_start_line(At(ls, first))
        block_count == number_at(ls, first)
        percent_damaged == number_at(ls, first + 1)
        materials == materials_from(ls, first + 3, last - 2, <<>>)
        time_delay == number_at(ls, last - 1)
        cost == number_at(ls, last)
    IN  IF start_time.raised # "none" THEN start_time
        ELSE IF block_count.raised # "none" THEN block_count
        ELSE IF percent_damaged.raised # "none" THEN percent_damaged
        ELSE IF materials.raised # "none" THEN materials
        ELSE IF time_delay.raised # "none" THEN time_delay
        ELSE IF cost.raised # "none" THEN cost
        ELSE [raised |-> "none", start_time |-> start_time.value,
              block_count |-> block_count.value,
              percent_damaged |-> percent_damaged.value,
              materials |-> materials.value, time_delay |-> time_delay.value,
              cost |-> cost.value]

\* 'Repairs underway: 0/'
UnderwayMarker ==
    <<"R", "e", "p", "a", "i", "r", "s", " ", "u", "n", "d", "e", "r", "w",
      "a", "y", ":", " ", "0", "/">>

\* cost_index + 100, without the min with len(lines).
lookahead_stop_unclamped(cost_index, ls) == cost_index + LookaheadSpan

\* min(cost_index + 100, len(lines))
lookahead_stop(cost_index, ls) ==
    IF cost_index + LookaheadSpan < Len(ls)
    THEN cost_index + LookaheadSpan ELSE Len(ls)

\* The records the tried logs open with, and the index of their cost line.
Heads ==
    LET chat == Stamp \o ChatMarker
        damaged == chat \o DamagedMarker \o <<"5">>
        money == chat \o MoneyMarker \o <<"5", "0">>
        percent == chat \o <<"P", ":", " ", "1", "2", ".", "5">>
        wood == chat \o <<"W", " ", ":", " ", "5">>
        delay == chat \o <<"S", ":", " ", "1", "2", "0">>
    IN  {[ls |-> <<damaged, percent, <<"x">>, wood, <<"x">>, delay, money>>,
          last |-> 6],
         [ls |-> <<damaged, money>>, last |-> 1],
         [ls |-> <<damaged, percent, <<"x">>, <<"x">>, delay,
                   chat \o MoneyMarker \o <<"x">>>>, last |-> 5],
         [ls |-> <<ChatMarker \o DamagedMarker \o <<"5">>, money>>, last |-> 1],
         [ls |-> <<damaged, percent, <<"x">>, chat \o wood, <<"x">>, delay,
                   money>>, last |-> 6]}

\* The lines tried after the cost line, besides <<"x">>.
Specials ==
    {Stamp \o ChatMarker \o UnderwayMarker \o <<"3">>,
     <<" ", "\t">> \o ChatMarker \o UnderwayMarker \o <<" ">>,
     ChatMarker \o ChatMarker \o UnderwayMarker,
     Stamp \o UnderwayMarker \o <<"3">>,
     Stamp \o ChatMarker \o <<"x">> \o UnderwayMarker}

\* The numbers of lines tried after the cost line.
TailLens ==
    {0, 1} \cup (LookaheadSpan - 2)..(LookaheadSpan - 1 + MaxBeyond)

\* The places tried for a special line among them.
TailPlaces ==
    {1, 2} \cup (LookaheadSpan - 2)..(LookaheadSpan - 1 + MaxBeyond)

Tails ==
    UNION {{[k \in 1..n |-> <<"x">>]}
             \cup {[k \in 1..n |-> IF k = at THEN sp ELSE <<"x">>] :
                     at \in TailPlaces \cap 1..n, sp \in Specials} :
           n \in TailLens}

InitParse ==
    /\ \E head \in Heads : \E tail \in Tails :
         /\ lines = head.ls \o tail
         /\ end_index = head.last
    /\ start_index = 0
    /\ fields = [raised |-> "nocall"]
    /\ started = FALSE
    /\ look_index = 0
    /\ inspected = {}
    /\ parse_pc = "fields"
    /\ RenderIdle
    /\ CostIdle
    /\ SummaryIdle
    /\ SplitIdle
    /\ ScanIdle
    /\ material_costs = << >>

\* Lines 85-121: the required fields; an exception leaves parse.
DecodeFields ==
    /\ parse_pc = "fields"
    /\ fields' = required_fields(lines, start_index, end_index)
    /\ parse_pc' = IF fields'.raised = "none" THEN "lookahead" ELSE "raised"
    /\ started' = FALSE
    /\ look_index' = end_index + 1
    /\ UNCHANGED <<lines, start_index, end_index, inspected>>
    /\ UNCHANGED parseOthers

\* One pass of the lookahead loop, the SplitError of __split_chat_line left
\* to leave parse.
LookaheadLine_NoCatch ==
    /\ parse_pc = "lookahead"
    /\ look_index < lookahead_stop(end_index, lines)
    /\ IF look_index >= Len(lines)
       THEN /\ parse_pc' = "raised"
            /\ UNCHANGED <<started, look_index, inspected>>
       ELSE /\ inspected' = inspected \cup {look_index}
            /\ LET chat == split_chat_line(At(lines, look_index), ChatMarker) IN
                 IF chat.raised # "none"
                 THEN /\ parse_pc' = "raised"
                      /\ UNCHANGED <<started, look_index>>
                 ELSE IF startswith(chat.value, UnderwayMarker)
                 THEN /\ started' = TRUE
                      /\ parse_pc' = "returned"
                      /\ UNCHANGED look_index
                 ELSE /\ look_index' = look_index + 1
                      /\ UNCHANGED <<started, parse_pc>>
    /\ UNCHANGED <<lines, start_index, end_index, fields>>
    /\ UNCHANGED parseOthers

\* One pass of the lookahead loop: line = lines[index]; the try; the
\* startswith test; break leads to the return.
LookaheadLine ==
    /\ parse_pc = "lookahead"
    /\ look_index < lookahead_stop(end_index, lines)
    /\ IF look_index >= Len(lines)
       THEN /\ parse_pc' = "raised"
            /\ UNCHANGED <<started, look_index, inspected>>
       ELSE /\ inspected' = inspected \cup {look_index}
            /\ LET chat == split_chat_line(At(lines, look_index), ChatMarker) IN
                 IF chat.raised = "SplitError"
                 THEN /\ look_index' = look_index + 1
                      /\ UNCHANGED <<started, parse_pc>>
                 ELSE IF chat.raised # "none"
                 THEN /\ parse_pc' = "raised"
                      /\ UNCHANGED <<started, look_index>>
                 ELSE IF startswith(chat.value, UnderwayMarker)
                 THEN /\ started' = TRUE
                      /\ parse_pc' = "returned"
                      /\ UNCHANGED look_index
                 ELSE /\ look_index' = look_index + 1
                      /\ UNCHANGED <<started, parse_pc>>
    /\ UNCHANGED <<lines, start_index, end_index, fields>>
    /\ UNCHANGED parseOthers

\* The range is exhausted; return Repair(...).
LookaheadEnd ==
    /\ parse_pc = "lookahead"
    /\ look_index >= lookahead_stop(end_index, lines)
    /\ parse_pc' = "returned"
    /\ UNCHANGED <<lines, start_index, end_index, fields, started, look_index,
                   inspected>>
    /\ UNCHANGED parseOthers

NextParse ==
    \/ DecodeFields
    \/ LookaheadLine
    \/ LookaheadEnd

SpecParse == InitParse /\ [][NextParse]_vars

\* A line is the repair-in-progress marker: trimmed, it holds the chat marker
\* once, and the text after it begins with 'Repairs underway: 0/'.
IsUnderway(line) ==
    LET occ == Occurrences(Trimmed(line), ChatMarker) IN
      /\ Cardinality(occ) = 1
      /\ \A at \in occ : HasAt(Trimmed(line), UnderwayMarker, at + Len(ChatMarker))

\* The lines the lookahead may read: fewer than LookaheadSpan lines after the
\* cost line, within the log.
Window ==
    {n \in (end_index + 1)..(end_index + LookaheadSpan - 1) : n < Len(lines)}

\* C10: once the required fields have decoded, the lookahead never fails the
\* record; it reads only lines of the window after the cost line, never an
\* index past the end of the log; it returns started true if a line it read is
\* the repair-in-progress marker and false otherwise, having then read the
\* whole window.
C10_LookaheadNeverFails ==
    fields.raised = "none" =>
        /\ parse_pc \in {"lookahead", "returned"}
        /\ inspected \subseteq Window
        /\ started = (\E n \in inspected : IsUnderway(At(lines, n)))
        /\ (parse_pc = "returned" /\ ~started) => inspected = Window

\* parse returned started = FALSE from a log whose first line beyond the
\* window is the marker, after reading lines that are not chat lines.
C10_Witness ==
    /\ parse_pc = "returned"
    /\ fields.raised = "none"
    /\ ~started
    /\ Cardinality(inspected) = LookaheadSpan - 1
    /\ Len(lines) > end_index + LookaheadSpan
    /\ IsUnderway(At(lines, end_index + LookaheadSpan))

\* parse returned started = TRUE on the marker in the last line of the window.
C10_WitnessFound ==
    /\ parse_pc = "returned"
    /\ started
    /\ end_index + LookaheadSpan - 1 \in inspected

====
